---- MODULE Spec2Model ----
(***************************************************************************)
(* Model of the POST /api/products handler create_product                  *)
(* (src/Part1_Correct_Implementation.py).  Every request runs the handler  *)
(* on a database session of its own; the committed tables are shared.      *)
(* Strings are sequences of one-character strings, so that strip(),        *)
(* upper(), lower(), `in` and Decimal(str(x)) are computed, not assumed.   *)
(***************************************************************************)
EXTENDS Integers, Sequences, FiniteSets, TLC

\* Number of requests the model follows.
NumReq == 2

Reqs == 1..NumReq

(***************************************************************************)
(* Python strings                                                          *)
(***************************************************************************)
LowerLetters ==
  <<"a","b","c","d","e","f","g","h","i","j","k","l","m",
    "n","o","p","q","r","s","t","u","v","w","x","y","z">>

UpperLetters ==
  <<"A","B","C","D","E","F","G","H","I","J","K","L","M",
    "N","O","P","Q","R","S","T","U","V","W","X","Y","Z">>

Whitespace == {" ", "\t", "\n"}

Digits == {"0","1","2","3","4","5","6","7","8","9"}

DigitChars == <<"0","1","2","3","4","5","6","7","8","9">>

UpperChar(c) ==
  IF \E i \in 1..26 : LowerLetters[i] = c
  THEN UpperLetters[CHOOSE i \in 1..26 : LowerLetters[i] = c]
  ELSE c

LowerChar(c) ==
  IF \E i \in 1..26 : UpperLetters[i] = c
  THEN LowerLetters[CHOOSE i \in 1..26 : UpperLetters[i] = c]
  ELSE c

\* str.upper()
Upper(s) == [i \in 1..Len(s) |-> UpperChar(s[i])]

\* str.lower()
Lower(s) == [i \in 1..Len(s) |-> LowerChar(s[i])]

RECURSIVE LStrip(_)
LStrip(s) ==
  IF s # <<>> /\ Head(s) \in Whitespace THEN LStrip(Tail(s)) ELSE s

RECURSIVE RStrip(_)
RStrip(s) ==
  IF s # <<>> /\ s[Len(s)] \in Whitespace
  THEN RStrip(SubSeq(s, 1, Len(s) - 1))
  ELSE s

\* str.strip()
Strip(s) == RStrip(LStrip(s))

\* sub in s
Contains(s, sub) ==
  \E i \in 1..(Len(s) - Len(sub) + 1) : SubSeq(s, i, i + Len(sub) - 1) = sub

RECURSIVE NatStr(_)
NatStr(n) ==
  IF n < 10 THEN <<DigitChars[n + 1]>>
  ELSE NatStr(n \div 10) \o <<DigitChars[(n % 10) + 1]>>

\* str(n) of an int
IntStr(n) == IF n < 0 THEN <<"-">> \o NatStr(0 - n) ELSE NatStr(n)

(***************************************************************************)
(* JSON values, as request.get_json() delivers them                        *)
(***************************************************************************)
JAbsent == [kind |-> "absent", num |-> 0, txt |-> <<>>]

JNull == [kind |-> "null", num |-> 0, txt |-> <<>>]

JStr(t) == [kind |-> "str", num |-> 0, txt |-> t]

JInt(n) == [kind |-> "int", num |-> n, txt |-> <<>>]

JBool(b) == [kind |-> "bool", num |-> IF b THEN 1 ELSE 0, txt |-> <<>>]

\* A float is kept by its repr: 2.5 is <<"2",".","5">>, float('nan') is "nan".
JFloat(repr) == [kind |-> "float", num |-> 0, txt |-> repr]

JList == [kind |-> "list", num |-> 0, txt |-> <<>>]

\* str(x)
PyStr(v) ==
  CASE v.kind = "str" -> v.txt
    [] v.kind = "int" -> IntStr(v.num)
    [] v.kind = "bool" -> IF v.num = 1 THEN <<"T","r","u","e">>
                                      ELSE <<"F","a","l","s","e">>
    [] v.kind = "float" -> v.txt
    [] v.kind = "list" -> <<"[","]">>
    [] OTHER -> <<"N","o","n","e">>

\* isinstance(x, int): bool is a subclass of int
IsInstanceInt(v) == v.kind \in {"int", "bool"}

\* hasattr(x, "strip"): only a str has strip() and upper()
IsPyStr(v) == v.kind = "str"

(***************************************************************************)
(* decimal.Decimal                                                         *)
(***************************************************************************)
NoDecimal == [cls |-> "none", neg |-> FALSE, digits |-> <<>>, scale |-> 0]

InvalidDecimal == [cls |-> "invalid", neg |-> FALSE, digits |-> <<>>, scale |-> 0]

DotCount(s) == Cardinality({i \in 1..Len(s) : s[i] = "."})

DotAt(s) == CHOOSE i \in 1..Len(s) : s[i] = "."

\* The digits of s, its decimal point dropped.
Coefficient(s) ==
  IF DotCount(s) = 0 THEN s
  ELSE SubSeq(s, 1, DotAt(s) - 1) \o SubSeq(s, DotAt(s) + 1, Len(s))

\* Decimal(s): surrounding whitespace is dropped, then an optional sign, then
\* digits with at most one point, or inf / infinity / nan in any letter case.
\* (Exponents and digit-group underscores are not modelled.)
DecimalOf(s) ==
  LET t    == Strip(s)
      sgn  == t # <<>> /\ Head(t) \in {"-", "+"}
      neg  == t # <<>> /\ Head(t) = "-"
      body == IF sgn THEN Tail(t) ELSE t
      low  == Lower(body)
  IN  IF low \in {<<"i","n","f">>, <<"i","n","f","i","n","i","t","y">>}
      THEN [cls |-> "inf", neg |-> neg, digits |-> <<>>, scale |-> 0]
      ELSE IF low = <<"n","a","n">>
      THEN [cls |-> "nan", neg |-> neg, digits |-> <<>>, scale |-> 0]
      ELSE IF /\ body # <<>>
              /\ \A i \in 1..Len(body) : body[i] \in Digits \cup {"."}
              /\ DotCount(body) <= 1
              /\ \E i \in 1..Len(body) : body[i] \in Digits
      THEN [cls |-> "finite", neg |-> neg, digits |-> Coefficient(body),
            scale |-> IF DotCount(body) = 0 THEN 0 ELSE Len(body) - DotAt(body)]
      ELSE InvalidDecimal

\* d < 0 for a Decimal that is not a NaN
DecimalNegative(d) ==
  \/ d.cls = "inf" /\ d.neg
  \/ d.cls = "finite" /\ d.neg /\ \E i \in 1..Len(d.digits) : d.digits[i] # "0"

(***************************************************************************)
(* Request payloads                                                        *)
(***************************************************************************)
RequiredFields == <<"name", "sku", "price", "warehouse_id", "initial_quantity">>

NoFields ==
  [name |-> JAbsent, sku |-> JAbsent, price |-> JAbsent,
   warehouse_id |-> JAbsent, initial_quantity |-> JAbsent]

\* A JSON object: the five fields (JAbsent when the key is missing) and the
\* number of other keys.
Dict(n, s, p, w, q) ==
  [kind |-> "dict", num |-> 0, items |-> {},
   fields |-> [name |-> n, sku |-> s, price |-> p,
               warehouse_id |-> w, initial_quantity |-> q]]

\* A payload that is no JSON object: null / absent, a number, a boolean, or a
\* list (num its length, items the strings among its elements).
Scalar(k, n) == [kind |-> k, num |-> n, items |-> {}, fields |-> NoFields]

ListOf(n, elems) == [kind |-> "list", num |-> n, items |-> elems, fields |-> NoFields]

NoData == Scalar("idle", 0)

\* bool(data)
Truthy(d) ==
  CASE d.kind = "dict" ->
         d.num > 0 \/ \E i \in 1..5 : d.fields[RequiredFields[i]].kind # "absent"
    [] d.kind = "list" -> d.num > 0
    [] d.kind \in {"int", "bool"} -> d.num # 0
    [] OTHER -> FALSE

(***************************************************************************)
(* Responses and exceptions                                                *)
(***************************************************************************)
NoResponse == [status |-> 0, error |-> <<>>, product_id |-> 0, sku |-> <<>>]

\* jsonify({"error": msg}), status
ErrorResponse(st, msg) == [status |-> st, error |-> msg, product_id |-> 0, sku |-> <<>>]

\* jsonify({"message": ..., "product_id": product.id, "sku": product.sku}), 201
SuccessResponse(product) ==
  [status |-> 201, error |-> <<>>, product_id |-> product.id, sku |-> product.sku]

NoException == [type |-> "none", constraint |-> "none", text |-> <<>>]

\* Any exception that is no IntegrityError (TypeError, AttributeError, a lost
\* connection, ...).
OtherException(t) == [type |-> t, constraint |-> "none", text |-> <<>>]

(***************************************************************************)
(* Lines 10-30: validation of the payload, before the database is touched  *)
(***************************************************************************)
\* Lines 16-18, from the i-th required field on: "ok", the first field found
\* missing, or the TypeError of `field in data` / data[field] on a payload
\* that is no mapping.
RECURSIVE CheckFields(_, _)
CheckFields(d, i) ==
  IF i > Len(RequiredFields) THEN [out |-> "ok", field |-> ""]
  ELSE LET f == RequiredFields[i] IN
    CASE d.kind = "dict" ->
           IF d.fields[f].kind \in {"absent", "null"}
           THEN [out |-> "missing", field |-> f]
           ELSE CheckFields(d, i + 1)
      [] d.kind = "list" ->
           IF f \notin d.items
           THEN [out |-> "missing", field |-> f]
           ELSE [out |-> "raise", field |-> f]
      [] OTHER -> [out |-> "raise", field |-> f]

\* Lines 21-26: Decimal(str(data['price'])); an ordering comparison of a NaN
\* signals InvalidOperation, like a string that does not parse.
PriceCheck(v) ==
  LET d == DecimalOf(PyStr(v)) IN
    IF d.cls \in {"invalid", "nan"}
    THEN [out |-> "respond", price |-> NoDecimal,
          response |-> ErrorResponse(400, <<"Invalid price format">>)]
    ELSE IF DecimalNegative(d)
    THEN [out |-> "respond", price |-> NoDecimal,
          response |-> ErrorResponse(400, <<"Price cannot be negative">>)]
    ELSE [out |-> "ok", price |-> d, response |-> NoResponse]

\* Lines 28-30
QuantityRejected(v) == ~IsInstanceInt(v) \/ v.num < 0

\* Lines 10-30 as a whole: the response returned, the exception raised, or
\* "ok" with the parsed price.
Validate(d) ==
  IF ~Truthy(d)
  THEN [out |-> "respond", price |-> NoDecimal, exc |-> NoException,
        response |-> ErrorResponse(400, <<"No JSON data provided">>)]
  ELSE LET c == CheckFields(d, 1) IN
    CASE c.out = "missing" ->
           [out |-> "respond", price |-> NoDecimal, exc |-> NoException,
            response |-> ErrorResponse(400, <<"Missing required field: ", c.field>>)]
      [] c.out = "raise" ->
           [out |-> "raise", price |-> NoDecimal, exc |-> OtherException("TypeError"),
            response |-> NoResponse]
      [] OTHER ->
           LET p == PriceCheck(d.fields.price) IN
             IF p.out = "respond"
             THEN [out |-> "respond", price |-> NoDecimal, exc |-> NoException,
                   response |-> p.response]
             ELSE IF QuantityRejected(d.fields.initial_quantity)
             THEN [out |-> "respond", price |-> NoDecimal, exc |-> NoException,
                   response |-> ErrorResponse(400,
                       <<"Initial quantity must be non-negative integer">>)]
             ELSE [out |-> "ok", price |-> p.price, exc |-> NoException,
                   response |-> NoResponse]

\* The lookup's result is not checked.
WarehouseNeverMissing(whs, v) == FALSE

\* Lines 33-34: Warehouse.query.get(id) found nothing
WarehouseMissing(whs, v) == ~(v.kind = "int" /\ v.num \in whs)

\* The sku without strip().
ProductSkuUpperOnly(d) == Upper(d.fields.sku.txt)

\* The sku without upper().
ProductSkuStripOnly(d) == Strip(d.fields.sku.txt)

\* Line 43: sku=data['sku'].strip().upper()
ProductSku(d) == Upper(Strip(d.fields.sku.txt))

\* Line 42: name=data['name'].strip()
ProductName(d) == Strip(d.fields.name.txt)

\* The except clause without its test for "sku".
IntegrityResponseGeneric(text) ==
  ErrorResponse(400, <<"Database constraint violation">>)

\* Lines 69-71
IntegrityResponse(text) ==
  IF Contains(Lower(text), <<"s","k","u">>)
  THEN ErrorResponse(409, <<"SKU already exists">>)
  ELSE ErrorResponse(400, <<"Database constraint violation">>)

\* Lines 67-76: the response of the except clause that catches e
ExceptionResponse(e) ==
  IF e.type = "IntegrityError"
  THEN IntegrityResponse(e.text)
  ELSE ErrorResponse(500, <<"Internal server error">>)

(***************************************************************************)
(* The persistence layer: the text of an IntegrityError                    *)
(***************************************************************************)
\* "UNIQUE constraint failed: product.sku"
SkuViolationText ==
  <<"U","N","I","Q","U","E"," ","c","o","n","s","t","r","a","i","n","t"," ",
    "f","a","i","l","e","d",":"," ","p","r","o","d","u","c","t",".","s","k",
    "u">>

\* "FOREIGN KEY constraint failed"
ForeignKeyText ==
  <<"F","O","R","E","I","G","N"," ","K","E","Y"," ","c","o","n","s","t","r",
    "a","i","n","t"," ","f","a","i","l","e","d">>

\* The failing statement, which the ORM may append to the driver's text.
ProductInsertText ==
  <<" ","[","S","Q","L",":"," ","I","N","S","E","R","T"," ","I","N","T","O",
    " ","p","r","o","d","u","c","t"," ","(","n","a","m","e",","," ","s","k",
    "u",","," ","p","r","i","c","e",","," ","w","a","r","e","h","o","u","s",
    "e","_","i","d",")","]">>

InventoryInsertText ==
  <<" ","[","S","Q","L",":"," ","I","N","S","E","R","T"," ","I","N","T","O",
    " ","i","n","v","e","n","t","o","r","y"," ","(","p","r","o","d","u","c",
    "t","_","i","d",","," ","w","a","r","e","h","o","u","s","e","_","i","d",
    ","," ","q","u","a","n","t","i","t","y",")","]">>

IntegrityError(c, driver, statement, detail) ==
  [type |-> "IntegrityError", constraint |-> c,
   text |-> IF detail THEN driver \o statement ELSE driver]

(***************************************************************************)
(* State                                                                   *)
(***************************************************************************)
VARIABLES
  products,     \* committed Product rows
  inventories,  \* committed Inventory rows
  warehouses,   \* ids of the committed Warehouse rows
  nextId,       \* the next Product id the database assigns
  pc,           \* where each request's handler stands
  data,         \* request.get_json() of each request
  price,        \* the handler's local price
  product,      \* the handler's local product (a set of at most one row)
  sess,         \* each request's db.session: open transaction, pending rows
  exc,          \* the exception each handler caught
  response,     \* the response each handler returned
  snap,         \* the tables as they were when the request arrived
  post,         \* the tables as they were when the response was returned
  log           \* the transaction calls each handler made on its session

vars ==
  <<products, inventories, warehouses, nextId, pc, data, price, product,
    sess, exc, response, snap, post, log>>

InitialWarehouses == {1, 2}

\* The warehouses that may be deleted while requests are served.
VolatileWarehouses == {2}

Tables == [products |-> products, inventories |-> inventories]

NoTables == [products |-> {}, inventories |-> {}]

NoSession == [txn |-> FALSE, rows |-> {}]

Init ==
  /\ products = {}
  /\ inventories = {}
  /\ warehouses = InitialWarehouses
  /\ nextId = 1
  /\ pc = [r \in Reqs |-> "idle"]
  /\ data = [r \in Reqs |-> NoData]
  /\ price = [r \in Reqs |-> NoDecimal]
  /\ product = [r \in Reqs |-> {}]
  /\ sess = [r \in Reqs |-> NoSession]
  /\ exc = [r \in Reqs |-> NoException]
  /\ response = [r \in Reqs |-> NoResponse]
  /\ snap = [r \in Reqs |-> NoTables]
  /\ post = [r \in Reqs |-> NoTables]
  /\ log = [r \in Reqs |-> <<>>]

(***************************************************************************)
(* The handler, one action per stretch between two database calls          *)
(***************************************************************************)
\* Lines 10-35: validation and the warehouse lookup.
Checked(d, whs) ==
  LET v == Validate(d) IN
    IF v.out = "ok" /\ WarehouseMissing(whs, d.fields.warehouse_id)
    THEN [v EXCEPT !.out = "respond", !.price = NoDecimal,
                   !.response = ErrorResponse(404, <<"Warehouse not found">>)]
    ELSE v

Receive(r, d) ==
  /\ pc[r] = "idle"
  /\ LET c == Checked(d, warehouses) IN
       /\ pc' = [pc EXCEPT ![r] = CASE c.out = "respond" -> "done"
                                    [] c.out = "raise" -> "except"
                                    [] OTHER -> "begin"]
       /\ price' = [price EXCEPT ![r] = c.price]
       /\ exc' = [exc EXCEPT ![r] = c.exc]
       /\ response' = [response EXCEPT ![r] = c.response]
       /\ post' = [post EXCEPT ![r] = IF c.out = "respond" THEN Tables ELSE @]
  /\ data' = [data EXCEPT ![r] = d]
  /\ snap' = [snap EXCEPT ![r] = Tables]
  /\ UNCHANGED <<products, inventories, warehouses, nextId, product, sess, log>>

\* The handler of r leaves the try block with exception e.
Raise(r, e) ==
  /\ pc' = [pc EXCEPT ![r] = "except"]
  /\ exc' = [exc EXCEPT ![r] = e]

\* Another session holds an uncommitted Product with this sku: the INSERT
\* waits for that transaction to end.
Blocked(r, sku) ==
  \E q \in Reqs \ {r} : \E row \in sess[q].rows : row.sku = sku

\* The constraints an INSERT of this Product row violates.
ProductViolations(row) ==
  {"product.sku" : x \in {p \in products : p.sku = row.sku}}
    \cup (IF row.warehouse_id \in warehouses THEN {} ELSE {"product.warehouse_id"})

ViolationText(c) == IF c = "product.sku" THEN SkuViolationText ELSE ForeignKeyText

\* Lines 38-48: db.session.begin(), Product(...), db.session.add(product),
\* db.session.flush(); commitNow says whether the row is committed at once.
\* begin() opens the transaction on the session and sends nothing; flush()
\* sends the INSERT, which the database accepts, refuses with an
\* IntegrityError, or fails for a reason of its own.
FlushProductWith(r, commitNow) ==
  /\ pc[r] = "begin"
  /\ IF ~IsPyStr(data[r].fields.name) \/ ~IsPyStr(data[r].fields.sku)
     THEN /\ Raise(r, OtherException("AttributeError"))
          /\ sess' = [sess EXCEPT ![r].txn = TRUE]
          /\ log' = [log EXCEPT ![r] = Append(@, "begin")]
          /\ UNCHANGED <<products, nextId, product>>
     ELSE LET row == [id |-> nextId, name |-> ProductName(data[r]),
                      sku |-> ProductSku(data[r]), price |-> price[r],
                      warehouse_id |-> data[r].fields.warehouse_id.num]
          IN \/ /\ ~Blocked(r, row.sku)
                /\ ProductViolations(row) = {}
                /\ nextId' = nextId + 1
                /\ product' = [product EXCEPT ![r] = {row}]
                /\ IF commitNow
                   THEN /\ products' = products \cup {row}
                        /\ sess' = [sess EXCEPT ![r] = NoSession]
                        /\ log' = [log EXCEPT ![r] =
                                     @ \o <<"begin", "flush", "commit">>]
                   ELSE /\ sess' = [sess EXCEPT ![r] = [txn |-> TRUE, rows |-> {row}]]
                        /\ log' = [log EXCEPT ![r] = @ \o <<"begin", "flush">>]
                        /\ UNCHANGED products
                /\ pc' = [pc EXCEPT ![r] = "commit"]
                /\ UNCHANGED exc
             \/ /\ ~Blocked(r, row.sku)
                /\ \E c \in ProductViolations(row) : \E detail \in BOOLEAN :
                     Raise(r, IntegrityError(c, ViolationText(c),
                                             ProductInsertText, detail))
                /\ sess' = [sess EXCEPT ![r].txn = TRUE]
                /\ log' = [log EXCEPT ![r] = Append(@, "begin")]
                /\ UNCHANGED <<products, nextId, product>>
             \/ /\ Raise(r, OtherException("OperationalError"))
                /\ sess' = [sess EXCEPT ![r].txn = TRUE]
                /\ log' = [log EXCEPT ![r] = Append(@, "begin")]
                /\ UNCHANGED <<products, nextId, product>>
  /\ UNCHANGED <<inventories, warehouses, data, price, response, snap, post>>

\* The Product committed on its own, before the Inventory row exists.
FlushProductCommitted(r) == FlushProductWith(r, TRUE)

FlushProduct(r) == FlushProductWith(r, FALSE)

\* Lines 51-65: Inventory(...), db.session.add(inventory), db.session.commit()
\* and the 201 response.
Commit(r) ==
  /\ pc[r] = "commit"
  /\ LET p == CHOOSE x \in product[r] : TRUE
         inv == [product_id |-> p.id,
                 warehouse_id |-> data[r].fields.warehouse_id.num,
                 quantity |-> data[r].fields.initial_quantity.num]
     IN \/ IF inv.warehouse_id \in warehouses
           THEN /\ products' = products \cup sess[r].rows
                /\ inventories' = inventories \cup {inv}
                /\ sess' = [sess EXCEPT ![r] = NoSession]
                /\ log' = [log EXCEPT ![r] = Append(@, "commit")]
                /\ response' = [response EXCEPT ![r] = SuccessResponse(p)]
                /\ post' = [post EXCEPT ![r] =
                              [products |-> products \cup sess[r].rows,
                               inventories |-> inventories \cup {inv}]]
                /\ pc' = [pc EXCEPT ![r] = "done"]
                /\ UNCHANGED exc
           ELSE /\ \E detail \in BOOLEAN :
                     Raise(r, IntegrityError("inventory.warehouse_id",
                                ForeignKeyText, InventoryInsertText, detail))
                /\ UNCHANGED <<products, inventories, sess, log, response, post>>
        \/ /\ Raise(r, OtherException("OperationalError"))
           /\ UNCHANGED <<products, inventories, sess, log, response, post>>
  /\ UNCHANGED <<warehouses, nextId, data, price, product, snap>>

\* Lines 67-76: both except clauses; rollback says whether
\* db.session.rollback() is called.
ExceptWith(r, rollback) ==
  /\ pc[r] = "except"
  /\ IF rollback
     THEN /\ sess' = [sess EXCEPT ![r] = NoSession]
          /\ log' = [log EXCEPT ![r] = Append(@, "rollback")]
     ELSE UNCHANGED <<sess, log>>
  /\ response' = [response EXCEPT ![r] = ExceptionResponse(exc[r])]
  /\ post' = [post EXCEPT ![r] = Tables]
  /\ pc' = [pc EXCEPT ![r] = "done"]
  /\ UNCHANGED <<products, inventories, warehouses, nextId, data, price,
                 product, exc, snap>>

\* The except clauses without db.session.rollback().
ExceptNoRollback(r) == ExceptWith(r, FALSE)

Except(r) == ExceptWith(r, TRUE)

\* Outside the handler: a Warehouse row no Product or Inventory row refers
\* to, committed or pending, is deleted.
DeleteWarehouse(w) ==
  /\ w \in warehouses
  /\ \A p \in products : p.warehouse_id # w
  /\ \A i \in inventories : i.warehouse_id # w
  /\ \A r \in Reqs : \A row \in sess[r].rows : row.warehouse_id # w
  /\ warehouses' = warehouses \ {w}
  /\ UNCHANGED <<products, inventories, nextId, pc, data, price, product,
                 sess, exc, response, snap, post, log>>

(***************************************************************************)
(* Requests                                                                *)
(***************************************************************************)
Widget == JStr(<<" ","W","i","d","g","e","t">>)

Price999 == JStr(<<"9",".","9","9">>)

Order(s, w) == Dict(Widget, JStr(s), Price999, JInt(w), JInt(10))

WithPrice(p) == Dict(Widget, JStr(<<"a">>), p, JInt(1), JInt(10))

WithQuantity(q) == Dict(Widget, JStr(<<"a">>), Price999, JInt(1), q)

\* The requests sent while others are in flight: three spellings of two
\* skus against both warehouses, a warehouse that never existed, a name that
\* is no string, a negative price.
ConcurrentPayloads ==
  {Order(<<"a">>, 1), Order(<<" ","A">>, 1), Order(<<"A","\n">>, 2),
   Order(<<"b">>, 2), Order(<<"a">>, 3),
   Dict(JInt(7), JStr(<<"a">>), Price999, JInt(1), JInt(10)),
   WithPrice(JInt(-1))}

PricePayloads ==
  {WithPrice(p) : p \in
     {JInt(0), JFloat(<<"2",".","5">>), JStr(<<"a","b","c">>),
      JStr(<<"N","a","N">>), JStr(<<"I","n","f","i","n","i","t","y">>),
      JStr(<<"-","i","n","f">>), JStr(<<"-","0">>), JStr(<<>>),
      JBool(TRUE), JFloat(<<"n","a","n">>), JList}}

QuantityPayloads ==
  {WithQuantity(q) : q \in
     {JInt(0), JInt(-1), JFloat(<<"2",".","5">>), JStr(<<"5">>),
      JBool(TRUE), JBool(FALSE)}}

ShapePayloads ==
  {Scalar("null", 0), Scalar("int", 5), Scalar("int", 0), Scalar("bool", 1),
   ListOf(0, {}), ListOf(1, {}),
   ListOf(5, {RequiredFields[i] : i \in 1..5}),
   Dict(JAbsent, JAbsent, JAbsent, JAbsent, JAbsent)}

FieldPayloads ==
  {Dict(JAbsent, JStr(<<"a">>), Price999, JInt(1), JInt(10)),
   Dict(Widget, JNull, Price999, JInt(1), JInt(10)),
   Dict(Widget, JStr(<<"a">>), JAbsent, JInt(1), JInt(10)),
   Dict(Widget, JStr(<<"a">>), Price999, JInt(1), JAbsent),
   Dict(Widget, JInt(12), Price999, JInt(1), JInt(10)),
   Dict(Widget, JStr(<<" ","a","b","c","-","1"," ">>), Price999, JInt(1), JInt(10)),
   Dict(Widget, JStr(<<"\t","A","b","C","-","1","\n">>), Price999, JInt(2), JInt(0))}

\* Requests that differ from a valid one in spelling or in one value: the
\* concurrent ones, other forms of a valid price and quantity, the spec's
\* example sku, a warehouse id that is no row.
OrderPayloads ==
  ConcurrentPayloads
    \cup {WithPrice(JInt(0)), WithPrice(JFloat(<<"2",".","5">>)),
          WithPrice(JStr(<<"-","0">>)), WithQuantity(JInt(0)),
          Dict(Widget, JStr(<<" ","a","b","c","-","1"," ">>), Price999, JInt(1), JInt(10)),
          Dict(Widget, JStr(<<"\t","A","b","C","-","1","\n">>), Price999, JInt(2), JInt(0)),
          Dict(Widget, JStr(<<"b">>), JInt(0), JInt(0), JInt(0))}

AllPayloads ==
  OrderPayloads \cup PricePayloads \cup QuantityPayloads
    \cup ShapePayloads \cup FieldPayloads

(***************************************************************************)
(* Specifications                                                          *)
(***************************************************************************)
\* Requests are interchangeable: they arrive in the order of their numbers.
Arrived(r) == \A q \in Reqs : q < r => pc[q] # "idle"

\* Requests in flight together, warehouses deleted meanwhile.
Next ==
  \/ \E r \in Reqs : \E d \in ConcurrentPayloads : Arrived(r) /\ Receive(r, d)
  \/ \E r \in Reqs : FlushProduct(r)
  \/ \E r \in Reqs : Commit(r)
  \/ \E r \in Reqs : Except(r)
  \/ \E w \in VolatileWarehouses : DeleteWarehouse(w)

Spec == Init /\ [][Next]_vars

\* One request at a time: a request arrives when every earlier one has been
\* answered.
Answered(r) == \A q \in Reqs : q < r => pc[q] = "done"

NextSeq ==
  \/ \E r \in Reqs : \E d \in OrderPayloads : Answered(r) /\ Receive(r, d)
  \/ \E r \in Reqs : FlushProduct(r)
  \/ \E r \in Reqs : Commit(r)
  \/ \E r \in Reqs : Except(r)

SpecSeq == Init /\ [][NextSeq]_vars

\* One request at a time, with any payload.
NextAny ==
  \/ \E r \in Reqs : \E d \in AllPayloads : Answered(r) /\ Receive(r, d)
  \/ \E r \in Reqs : FlushProduct(r)
  \/ \E r \in Reqs : Commit(r)
  \/ \E r \in Reqs : Except(r)

SpecAny == Init /\ [][NextAny]_vars

(***************************************************************************)
(* What the specification says of a payload, stated apart from the handler *)
(***************************************************************************)
Done(r) == pc[r] = "done"

Status(r) == response[r].status

\* The sku "after trimming and upper-casing".
NormalForm(t) == Upper(Strip(t))

\* All five required fields present and non-null.
AllPresent(d) ==
  /\ d.kind = "dict"
  /\ \A i \in 1..5 : d.fields[RequiredFields[i]].kind \notin {"absent", "null"}

\* A number, or a string that is one, finite and not negative.
SpecPriceOk(v) ==
  /\ v.kind \in {"int", "float", "str"}
  /\ LET d == DecimalOf(PyStr(v)) IN d.cls = "finite" /\ ~DecimalNegative(d)

\* An integer >= 0; a boolean is no integer.
SpecQuantityOk(v) == v.kind = "int" /\ v.num >= 0

\* The checks that come before the warehouse lookup.
PassesEarlierChecks(d) ==
  /\ AllPresent(d)
  /\ SpecPriceOk(d.fields.price)
  /\ SpecQuantityOk(d.fields.initial_quantity)

WarehouseExists(d) ==
  d.fields.warehouse_id.kind = "int" /\ d.fields.warehouse_id.num \in warehouses

ValidPayload(d) == PassesEarlierChecks(d) /\ WarehouseExists(d)

\* A valid payload whose name and sku are strings.
ValidOrder(d) ==
  ValidPayload(d) /\ d.fields.name.kind = "str" /\ d.fields.sku.kind = "str"

\* The handler caught nothing, or the IntegrityError it anticipates.
NoUnexpectedFailure(r) == exc[r].type \in {"none", "IntegrityError"}

\* The request of r changed neither table (one request at a time).
NothingPersisted(r) == post[r] = snap[r] /\ product[r] \cap products = {}

LastCall(r) == IF log[r] = <<>> THEN "none" ELSE log[r][Len(log[r])]

Called(r, c) == \E i \in 1..Len(log[r]) : log[r][i] = c

(***************************************************************************)
(* Claims                                                                  *)
(***************************************************************************)
\* C1: in every committed state, whatever the requests and their outcomes,
\* every Product has exactly one Inventory row, with its id and its
\* warehouse_id, and every Inventory row refers to an existing Product.
AtomicityInvariant ==
  /\ \A p \in products :
       /\ Cardinality({i \in inventories : i.product_id = p.id}) = 1
       /\ \A i \in inventories : i.product_id = p.id => i.warehouse_id = p.warehouse_id
       /\ \A q \in products : q.id = p.id => q = p
  /\ \A i \in inventories : \E p \in products : p.id = i.product_id

\* A request failed between the Product flush and the commit and was
\* answered 500, while another request's Product is committed.
AtomicityWitness ==
  \E r \in Reqs :
    /\ Done(r) /\ Status(r) = 500
    /\ log[r] = <<"begin", "flush", "rollback">>
    /\ products # {}

TransactionReleased ==
  \A r \in Reqs :
    /\ Called(r, "flush") => log[r][1] = "begin"
    /\ Done(r) =>
         /\ sess[r] = NoSession
         /\ Status(r) = 201 => LastCall(r) = "commit"
         /\ Status(r) # 201 /\ Called(r, "begin") => LastCall(r) = "rollback"
         /\ Status(r) # 201 => ~Called(r, "commit")

\* Every kind of response has been returned, the 500 after a flush.
TransactionReleasedWitness ==
  /\ \E r \in Reqs : Done(r) /\ Status(r) = 500
                       /\ log[r] = <<"begin", "flush", "rollback">>
  /\ \E r \in Reqs : Done(r) /\ Status(r) \in {201, 400, 404, 409}

\* C4: a payload that passes the earlier checks and whose initial_quantity
\* is negative, fractional, a string or a boolean is answered 400 "Initial
\* quantity must be non-negative integer" and persists nothing (stated of
\* the requests whose handler raised no exception).
QuantityMustBeInteger ==
  \A r \in Reqs :
    /\ Done(r) /\ exc[r].type = "none"
    /\ AllPresent(data[r]) /\ SpecPriceOk(data[r].fields.price)
    /\ ~SpecQuantityOk(data[r].fields.initial_quantity)
    => /\ response[r] =
            ErrorResponse(400, <<"Initial quantity must be non-negative integer">>)
       /\ NothingPersisted(r)

\* C5: the same sku twice, one request after the other, the spellings
\* differing at most in letter case and surrounding whitespace, both
\* payloads valid, the sku new and nothing failing unexpectedly: 201, then
\* 409 "SKU already exists", and the second request leaves both tables as
\* it found them (as the first left them when it follows at once).
SameSkuTwice ==
  \A r1, r2 \in Reqs :
    /\ r1 < r2 /\ Done(r1) /\ Done(r2)
    /\ ValidOrder(data[r1]) /\ ValidOrder(data[r2])
    /\ NormalForm(data[r1].fields.sku.txt) = NormalForm(data[r2].fields.sku.txt)
    /\ \A p \in snap[r1].products :
         NormalForm(p.sku) # NormalForm(data[r1].fields.sku.txt)
    /\ NoUnexpectedFailure(r1) /\ NoUnexpectedFailure(r2)
    => /\ Status(r1) = 201
       /\ response[r2] = ErrorResponse(409, <<"SKU already exists">>)
       /\ NothingPersisted(r2)
       /\ r2 = r1 + 1 => post[r2] = post[r1]

\* The second request spelt the sku differently and has been answered.
SameSkuTwiceWitness ==
  \E r1, r2 \in Reqs :
    /\ r1 < r2 /\ Done(r1) /\ Done(r2)
    /\ ValidOrder(data[r1]) /\ ValidOrder(data[r2])
    /\ NormalForm(data[r1].fields.sku.txt) = NormalForm(data[r2].fields.sku.txt)
    /\ data[r1].fields.sku.txt # data[r2].fields.sku.txt
    /\ NoUnexpectedFailure(r1) /\ NoUnexpectedFailure(r2)
    /\ Status(r2) = 409 /\ post[r2].products # {}

WarehouseNotFound ==
  \A r \in Reqs :
    Done(r) /\ PassesEarlierChecks(data[r]) /\ ~WarehouseExists(data[r]) =>
      /\ response[r] = ErrorResponse(404, <<"Warehouse not found">>)
      /\ log[r] = <<>>
      /\ product[r] = {}
      /\ NothingPersisted(r)

\* A 404 returned when the tables were not empty.
WarehouseNotFoundWitness ==
  \E r \in Reqs :
    /\ Done(r) /\ PassesEarlierChecks(data[r]) /\ ~WarehouseExists(data[r])
    /\ Status(r) = 404 /\ post[r].products # {} /\ post[r].inventories # {}

\* C8: a payload with all required fields whose price is negative, or is
\* no finite decimal number, is answered 400 ("Price cannot be negative" /
\* "Invalid price format") and persists nothing, and no persisted Product
\* has a negative price (stated of the requests whose handler raised no
\* exception).
PriceMustBeNumber ==
  /\ \A p \in products : ~DecimalNegative(p.price)
  /\ \A r \in Reqs :
       /\ Done(r) /\ exc[r].type = "none"
       /\ AllPresent(data[r]) /\ ~SpecPriceOk(data[r].fields.price)
       => /\ Status(r) = 400
          /\ response[r].error =
               IF DecimalNegative(DecimalOf(PyStr(data[r].fields.price)))
               THEN <<"Price cannot be negative">>
               ELSE <<"Invalid price format">>
          /\ NothingPersisted(r)

\* The payload is no mapping, or its name or sku is present and no string.
Malformed(d) ==
  \/ d.kind # "dict"
  \/ d.fields.name.kind \notin {"absent", "null", "str"}
  \/ d.fields.sku.kind \notin {"absent", "null", "str"}

\* C9: a structurally malformed payload is answered 400, never 500, and a
\* payload that is absent or no mapping 400 "No JSON data provided".
MalformedIsBadRequest ==
  \A r \in Reqs :
    Done(r) /\ Malformed(data[r]) =>
      /\ Status(r) = 400
      /\ data[r].kind # "dict" => response[r].error = <<"No JSON data provided">>

\* C10: an IntegrityError is answered after a rollback, with 409 "SKU
\* already exists" exactly when the sku constraint was violated, and with
\* 400 "Database constraint violation" for any other constraint.
ConflictOnlyForSku ==
  \A r \in Reqs :
    Done(r) /\ exc[r].type = "IntegrityError" =>
      /\ LastCall(r) = "rollback" /\ sess[r] = NoSession
      /\ response[r] =
           IF exc[r].constraint = "product.sku"
           THEN ErrorResponse(409, <<"SKU already exists">>)
           ELSE ErrorResponse(400, <<"Database constraint violation">>)

====
